---------------------------- MODULE Spec2Model ----------------------------
(***************************************************************************)
(* The findContracts scan of jsTests/findContracts.js.                     *)
(*                                                                         *)
(* Two scripts of the same shape walk a fixed range of block numbers.  For *)
(* every number the block is looked up with utils.getBlockData; the        *)
(* completion handler walks the block's transaction hashes and looks up    *)
(* each receipt with utils.getTxReceipt; that completion handler prints a  *)
(* line when the receipt carries a contract address.                       *)
(*                                                                         *)
(* The provider's answers (the chain and the receipts) are inputs: they    *)
(* are fixed in the initial state and the provider delivers completions in *)
(* any order.  JavaScript values are modelled as follows: null/undefined   *)
(* is the string Nil, the empty string is "", both are falsy; an object    *)
(* that may be null is a record with a "present" field.                    *)
(***************************************************************************)
EXTENDS Integers, Sequences, FiniteSets

VARIABLES
    script,      \* which of the two scripts runs (1 or 2)
    chain,       \* the provider's blocks: chain[k] answers block First + k - 1
    i,           \* the block loop's variable
    pendingBlk,  \* getBlockData lookups issued and not completed (their i)
    pendingRx,   \* getTxReceipt lookups issued and not completed
    blockCalls,  \* every getBlockData call made, in order
    rxCalls,     \* every getTxReceipt call made, in order
    out,         \* the console: the printed lines, in order
    thrown,      \* number of TypeErrors thrown out of a completion handler
    halted       \* the process was ended by an uncaught exception

vars == <<script, chain, i, pendingBlk, pendingRx, blockCalls, rxCalls, out,
          thrown, halted>>

-----------------------------------------------------------------------------
(* Bounds of the model *)

\* block numbers of the range the model scans (the head of the range)
MaxBlocks == 2

\* transaction hashes in the scanned blocks, all blocks together
MaxTxs == 2

-----------------------------------------------------------------------------
(* Program constants *)

FirstBlock1 == 116611

EndBlock1 == 116711

FirstBlock2 == 258728

EndBlock2 == 258928

ChainLabel == "left"

Min(a, b) == IF a < b THEN a ELSE b

First(s) == IF s = 1 THEN FirstBlock1 ELSE FirstBlock2

End(s) == IF s = 1 THEN EndBlock1 ELSE EndBlock2

\* the scan of the model stops after MaxBlocks numbers
Last(s) == Min(End(s), First(s) + MaxBlocks)

\* the test written i <= ...: one iteration too many
LoopCondInclusive(s, n) == n <= Last(s)

\* for (let i = ...; i < ...; i++): the loop's test
LoopCond(s, n) == n < Last(s)

-----------------------------------------------------------------------------
(* JavaScript values and the provider's answers *)

Nil == "null"

\* if (v) ...: null, undefined and "" are falsy
Truthy(v) == v \notin {Nil, ""}

\* what a transactions list can hold
TxHashes == {Nil, "0xa1", "0xa2", "0xa3", "0xa4"}

NoBlock == [present |-> FALSE, transactions |-> <<>>]

NoReceipt == [present |-> FALSE, contractAddress |-> Nil]

\* the provider's receipt of a transaction hash
ReceiptOf(txHash) ==
    CASE txHash = "0xa1" -> [present |-> TRUE, contractAddress |-> "0xc1"]
      [] txHash = "0xa2" -> [present |-> TRUE, contractAddress |-> Nil]
      [] txHash = "0xa3" -> [present |-> TRUE, contractAddress |-> ""]
      [] OTHER           -> NoReceipt

SeqsUpTo(S, n) == UNION {[1..k -> S] : k \in 0..n}

BlocksUpTo(n) ==
    {NoBlock} \cup {[present |-> TRUE, transactions |-> t] : t \in SeqsUpTo(TxHashes, n)}

\* the chains of k blocks holding at most n transaction hashes
RECURSIVE Chains(_, _)
Chains(k, n) ==
    IF k = 0 THEN {<<>>}
    ELSE UNION {{<<b>> \o c : c \in Chains(k - 1, n - Len(b.transactions))}
                : b \in BlocksUpTo(n)}

\* the provider's answer to getBlockData(_, n, _); it has no block past the
\* ones the chain holds
BlockOf(n) ==
    IF n - First(script) + 1 \in DOMAIN chain THEN chain[n - First(script) + 1]
    ELSE NoBlock

-----------------------------------------------------------------------------
(* The handlers *)

\* if (!txHash) return
HashMissing(txHash) == ~Truthy(txHash)

\* the loop with continue for return: a missing hash is skipped
RECURSIVE TxLoopSkip(_, _)
TxLoopSkip(txs, j) ==
    IF ~(j <= Len(txs)) THEN <<>>
    ELSE IF ~Truthy(txs[j]) THEN TxLoopSkip(txs, j + 1)
    ELSE <<txs[j]>> \o TxLoopSkip(txs, j + 1)

\* for (let j = 0; j < res.transactions.length; j++) {
\*     let txHash = res.transactions[j]; if (!txHash) return; utils.getTxReceipt(...) }
\* : the hashes looked up, in order, from position j on (positions are 1-based here)
RECURSIVE TxLoop(_, _)
TxLoop(txs, j) ==
    IF ~(j <= Len(txs)) THEN <<>>
    ELSE IF HashMissing(txs[j]) THEN <<>>
    ELSE <<txs[j]>> \o TxLoop(txs, j + 1)

\* the guard left out
ReturnsEarlyNever(res) == FALSE

\* if (!res) return
ReturnsEarly(res) == ~res.present

\* res.transactions of a null res throws a TypeError
BlockThrows(res) == ~res.present

\* the passed function reading a function-scoped i (var for let): the loop's
\* variable as it stands when the function runs or is made
RxCallLoopVar(n, j, txHash) == [chain |-> ChainLabel, txHash |-> txHash, i |-> i, j |-> j]

\* utils.getTxReceipt("left", txHash, function(txRes) ...), called by the handler
\* of block n for position j: the label, the hash, and the i and j the passed
\* function closes over
RxCall(n, j, txHash) == [chain |-> ChainLabel, txHash |-> txHash, i |-> n, j |-> j]

\* the other chain's label
BlockCallRight(n) == [chain |-> "right", number |-> n]

\* utils.getBlockData("left", i, function(res) ...)
BlockCall(n) == [chain |-> ChainLabel, number |-> n]

\* txRes.contractAddress of a null txRes throws a TypeError
Throws(txRes) == ~txRes.present

\* the test written txRes.contractAddress !== null
PrintsNotNull(txRes) == txRes.contractAddress # Nil

\* if (txRes.contractAddress) ...
Prints(txRes) == Truthy(txRes.contractAddress)

\* the line printing the transaction hash for the address
LineTxHash(d, txRes) == [number |-> d.i, contractAddress |-> d.txHash]

\* the line printing a function-scoped i (var for let): the loop's variable as it
\* stands when the line is printed
LineLoopVar(d, txRes) == [number |-> i, contractAddress |-> txRes.contractAddress]

\* console.log("block number = ", i, "contract address = ", txRes.contractAddress)
Line(d, txRes) == [number |-> d.i, contractAddress |-> txRes.contractAddress]

Init ==
    /\ script \in {1, 2}
    /\ chain \in Chains(MaxBlocks, MaxTxs)
    /\ i = First(script)
    /\ pendingBlk = {}
    /\ pendingRx = {}
    /\ blockCalls = <<>>
    /\ rxCalls = <<>>
    /\ out = <<>>
    /\ thrown = 0
    /\ halted = FALSE

\* one iteration of the block loop: utils.getBlockData("left", i, function(res) ...)
BlockLoop ==
    /\ ~halted
    /\ LoopCond(script, i)
    /\ blockCalls' = Append(blockCalls, BlockCall(i))
    /\ pendingBlk' = pendingBlk \cup {i}
    /\ i' = i + 1
    /\ UNCHANGED <<script, chain, pendingRx, rxCalls, out, thrown, halted>>

\* the provider completes the block lookup of n: function(res) runs.  An
\* exception thrown out of a handler unwinds into utils, which is not part of
\* the sources: it ends the process or is swallowed there.
BlockCallback(n) ==
    /\ ~halted
    /\ n \in pendingBlk
    /\ pendingBlk' = pendingBlk \ {n}
    /\ LET res == BlockOf(n)
       IN IF ReturnsEarly(res)
          THEN UNCHANGED <<pendingRx, rxCalls, thrown, halted>>
          ELSE IF BlockThrows(res)
          THEN /\ thrown' = thrown + 1
               /\ halted' \in BOOLEAN
               /\ UNCHANGED <<pendingRx, rxCalls>>
          ELSE LET hashes == TxLoop(res.transactions, 1)
                   calls == [k \in 1..Len(hashes) |-> RxCall(n, k, hashes[k])]
               IN /\ rxCalls' = rxCalls \o calls
                  /\ pendingRx' = pendingRx \cup {calls[k] : k \in 1..Len(calls)}
                  /\ UNCHANGED <<thrown, halted>>
    /\ UNCHANGED <<script, chain, i, blockCalls, out>>

\* the provider completes the receipt lookup d: function(txRes) runs
ReceiptCallback(d) ==
    /\ ~halted
    /\ d \in pendingRx
    /\ pendingRx' = pendingRx \ {d}
    /\ LET txRes == ReceiptOf(d.txHash)
       IN IF Throws(txRes)
          THEN /\ thrown' = thrown + 1
               /\ halted' \in BOOLEAN
               /\ out' = out
          ELSE /\ out' = IF Prints(txRes) THEN Append(out, Line(d, txRes)) ELSE out
               /\ UNCHANGED <<thrown, halted>>
    /\ UNCHANGED <<script, chain, i, pendingBlk, blockCalls, rxCalls>>

Next ==
    \/ BlockLoop
    \/ \E n \in pendingBlk : BlockCallback(n)
    \/ \E d \in pendingRx : ReceiptCallback(d)

Spec == Init /\ [][Next]_vars

\* the loop runs to its end and the provider completes every lookup
FairSpec == Spec /\ WF_vars(Next)

-----------------------------------------------------------------------------
(* Vocabulary of the properties *)

\* the block numbers the scan covers
Range == First(script) .. (Last(script) - 1)

\* the lookups whose completion handler runs in a step
CompletedBlk == pendingBlk \ pendingBlk'

CompletedRx == pendingRx \ pendingRx'

\* block numbers whose lookup has completed
Answered == {n \in Range : n < i /\ n \notin pendingBlk}

\* receipt lookups that have completed
AnsweredRx == {rxCalls[k] : k \in DOMAIN rxCalls} \ pendingRx

HasAddress(txHash) ==
    ReceiptOf(txHash).present /\ ReceiptOf(txHash).contractAddress \notin {Nil, ""}

AddressLine(n, txHash) ==
    [number |-> n, contractAddress |-> ReceiptOf(txHash).contractAddress]

Count(seq, x) == Cardinality({k \in DOMAIN seq : seq[k] = x})

\* the scan is over: the loop has ended and no lookup is pending
Quiescent == i = Last(script) /\ pendingBlk = {} /\ pendingRx = {}

-----------------------------------------------------------------------------
\* what a pending receipt lookup is: a hash of a present block of the range, and
\* what a step that completes receipt lookups does to the console
C1_Origin ==
    \A d \in pendingRx :
        /\ d.i \in Range
        /\ BlockOf(d.i).present
        /\ d.j \in 1..Len(BlockOf(d.i).transactions)
        /\ BlockOf(d.i).transactions[d.j] = d.txHash

C1_Step ==
    /\ Cardinality(CompletedRx) <= 1
    /\ \A d \in CompletedRx :
          HasAddress(d.txHash) => out' = Append(out, AddressLine(d.i, d.txHash))
    /\ out' # out => \E d \in CompletedRx : HasAddress(d.txHash)

(* C1: a receipt completion with a non-empty contractAddress prints exactly  *)
(* one line, holding the number of the block whose transactions list held    *)
(* the looked-up hash and the receipt's contractAddress; a line is printed   *)
(* by no other step.                                                         *)
C1_LinePerContract == []C1_Origin /\ [][C1_Step]_vars

\* a line for the second block of the range is on the console
C1_Witness ==
    /\ i = Last(script)
    /\ AddressLine(First(script) + 1, "0xa1") \in {out[k] : k \in DOMAIN out}

\* what the completion of a lookup whose receipt has no contract address does
C2_Step ==
    \A d \in CompletedRx :
        (ReceiptOf(d.txHash).present /\ ReceiptOf(d.txHash).contractAddress \in {Nil, ""})
        => /\ Len(out') = Len(out)
           /\ out' = out
           /\ pendingRx' = pendingRx \ {d}
           /\ UNCHANGED <<script, chain, i, pendingBlk, blockCalls, rxCalls, thrown, halted>>

(* C2: a receipt completion with an empty or absent contractAddress prints   *)
(* nothing and changes nothing but the lookup's being pending.               *)
C2_NoAddressNoLine == [][C2_Step]_vars

\* a receipt with a null and one with an empty contractAddress have completed
C2_Witness ==
    /\ \E d \in AnsweredRx : d.txHash = "0xa2"
    /\ \E d \in AnsweredRx : d.txHash = "0xa3"
    /\ out = <<>>

(* C3: a present block with an empty transactions list has no receipt lookup *)
(* issued for it and no line with its number printed, ever.                  *)

C3_EmptyBlock ==
    \A n \in Range :
        (BlockOf(n).present /\ BlockOf(n).transactions = <<>>)
        => /\ \A k \in DOMAIN rxCalls : rxCalls[k].i # n
           /\ \A d \in pendingRx : d.i # n
           /\ \A k \in DOMAIN out : out[k].number # n

\* an empty block's lookup has completed, and another block's line is printed
C3_Witness ==
    /\ \E n \in Answered : BlockOf(n).present /\ BlockOf(n).transactions = <<>>
    /\ out # <<>>

\* what is never done for an absent block, and what the completion of its lookup does
C4_Never ==
    \A n \in Range :
        ~BlockOf(n).present
        => /\ \A k \in DOMAIN rxCalls : rxCalls[k].i # n
           /\ \A d \in pendingRx : d.i # n
           /\ \A k \in DOMAIN out : out[k].number # n

C4_Step ==
    \A n \in CompletedBlk :
        ~BlockOf(n).present
        => /\ pendingBlk' = pendingBlk \ {n}
           /\ UNCHANGED <<script, chain, i, pendingRx, blockCalls, rxCalls, out,
                          thrown, halted>>

(* C4: an absent block has no receipt lookup issued for its number and no    *)
(* line with its number printed, ever; the completion of its lookup raises   *)
(* no error and leaves the lookups and lines of the other blocks as they are.*)
C4_AbsentBlock == []C4_Never /\ [][C4_Step]_vars

\* an absent block's lookup has completed, no error was raised, and another
\* block's line is printed
C4_Witness ==
    /\ \E n \in Answered : ~BlockOf(n).present
    /\ thrown = 0
    /\ out # <<>>

\* the length of the longest prefix of a transactions list without a missing hash,
\* and what the completion of a present block's lookup does
LongestPrefix(txs) ==
    CHOOSE p \in 0..Len(txs) :
        /\ \A m \in 1..p : txs[m] \notin {Nil, ""}
        /\ p = Len(txs) \/ txs[p + 1] \in {Nil, ""}

C6_Step ==
    \A n \in CompletedBlk :
        BlockOf(n).present
        => LET txs == BlockOf(n).transactions
               issued == [k \in 1..LongestPrefix(txs) |->
                            [chain |-> "left", txHash |-> txs[k], i |-> n, j |-> k]]
           IN /\ rxCalls' = rxCalls \o issued
              /\ pendingRx' = pendingRx \cup {issued[k] : k \in DOMAIN issued}
              /\ pendingBlk' = pendingBlk \ {n}
              /\ UNCHANGED <<i, blockCalls, out, thrown, halted>>

(* C6: the completion of a present block's lookup issues one receipt lookup  *)
(* per hash of the longest prefix of the transactions list that holds no     *)
(* missing hash, in list order, with label "left", and none from the first   *)
(* missing hash on; the other blocks' lookups are left as they are.          *)
C6_PrefixLookedUp == [][C6_Step]_vars

\* a block whose second hash is missing has completed: one lookup was issued
C6_Witness ==
    \E n \in Answered :
        /\ BlockOf(n).present
        /\ BlockOf(n).transactions = <<"0xa1", Nil>>
        /\ Cardinality({k \in DOMAIN rxCalls : rxCalls[k].i = n}) = 1

(* C7: the block lookups issued are one per block number, from the first     *)
(* number of the script's range upwards, each with label "left", never past  *)
(* the end of the range and never a second one for a number.                 *)

C7_BlockLookups ==
    /\ First(script) <= i
    /\ i <= Last(script)
    /\ Last(script) <= End(script)
    /\ <<First(script), End(script)>> \in {<<116611, 116711>>, <<258728, 258928>>}
    /\ blockCalls = [k \in 1..(i - First(script)) |->
                        [chain |-> "left", number |-> First(script) + k - 1]]
    /\ pendingBlk \subseteq First(script)..(i - 1)

\* the loop has ended and an absent block's lookup has completed
C7_Witness ==
    /\ i = Last(script)
    /\ pendingBlk = {}
    /\ \E n \in Answered : ~BlockOf(n).present

\* what the completion of a lookup whose receipt is absent would do
C8_Step ==
    \A d \in CompletedRx :
        ~ReceiptOf(d.txHash).present
        => /\ out' = out
           /\ thrown' = thrown
           /\ halted' = halted
           /\ pendingRx' = pendingRx \ {d}
           /\ UNCHANGED <<i, pendingBlk, blockCalls, rxCalls>>

(* C8: the completion of a receipt lookup with an absent receipt prints      *)
(* nothing, raises no error and leaves everything else as it is.             *)
C8_AbsentReceiptSilent == [][C8_Step]_vars

\* the lines the provider's answers fix, and how often each is due
ExpectedLines ==
    UNION {{AddressLine(n, BlockOf(n).transactions[k]) :
                k \in {m \in 1..LongestPrefix(BlockOf(n).transactions) :
                          HasAddress(BlockOf(n).transactions[m])}}
           : n \in {m \in Range : BlockOf(m).present}}

ExpectedCount(l) ==
    Cardinality({nk \in Range \X (1..(MaxTxs + 1)) :
        /\ BlockOf(nk[1]).present
        /\ nk[2] <= LongestPrefix(BlockOf(nk[1]).transactions)
        /\ HasAddress(BlockOf(nk[1]).transactions[nk[2]])
        /\ l = AddressLine(nk[1], BlockOf(nk[1]).transactions[nk[2]])})

(* C9: once the loop has ended and every lookup has completed, the lines on  *)
(* the console are, counted with multiplicity, those the provider's answers  *)
(* fix: one per hash with a contract address in a block's prefix, with that  *)
(* block's number, whatever the order of the completions was.                *)
C9_SameLinesAnyOrder ==
    Quiescent
    => \A l \in ExpectedLines \cup {out[k] : k \in DOMAIN out} :
          Count(out, l) = ExpectedCount(l)

\* the second block's line was printed before the first block's
C9_Witness ==
    /\ Quiescent
    /\ out = <<AddressLine(First(script) + 1, "0xa1"), AddressLine(First(script), "0xa1")>>

\* the transactions of the present blocks of the range, and the steps of a scan
\* that is over
RECURSIVE TxsFrom(_)
TxsFrom(n) ==
    IF n >= Last(script) THEN 0
    ELSE (IF BlockOf(n).present THEN Len(BlockOf(n).transactions) ELSE 0) + TxsFrom(n + 1)

LookupBound == (Last(script) - First(script)) + TxsFrom(First(script))

C10_Over ==
    (halted \/ Quiescent) => UNCHANGED <<blockCalls, rxCalls, pendingBlk, pendingRx, out>>

(* C10: when the loop runs on and every lookup is completed, the scan ends:  *)
(* unless an uncaught error has ended the process before, the loop has ended *)
(* and no lookup is pending; from then on no lookup is issued and no line    *)
(* printed; and the lookups issued never number more than the blocks of the  *)
(* range plus the transactions of the present blocks.                        *)
C10_Terminates ==
    /\ <>(halted \/ Quiescent)
    /\ [][C10_Over]_vars
    /\ [](Len(blockCalls) + Len(rxCalls) <= LookupBound)

\* the scan is over without an error, with as many lookups as the bound allows
C10_Witness ==
    /\ Quiescent
    /\ ~halted
    /\ thrown = 0
    /\ Len(rxCalls) = MaxTxs
    /\ Len(blockCalls) + Len(rxCalls) = LookupBound

=============================================================================
